---- MODULE Spec2Model ----
(***************************************************************************)
(* Model of EmployeeScheduler (final_scheduler.py): the registry built by  *)
(* add_employee and the three passes of assign_shifts over the 7 x 3 grid. *)
(* One step of the model is one iteration of the loop the program is in:   *)
(* an (employee, day) iteration of Pass 1, one iteration of the while loop *)
(* of Pass 2, one employee or one missing day of Pass 3.                   *)
(***************************************************************************)
EXTENDS Integers, Sequences, FiniteSets, TLC

\* ---------------------------------------------------------------- constants
DAYS == <<"Monday", "Tuesday", "Wednesday", "Thursday", "Friday", "Saturday", "Sunday">>

SHIFTS == <<"Morning", "Afternoon", "Evening">>

MAX_DAYS_PER_WEEK == 5

MIN_EMPLOYEES_PER_SHIFT == 2

\* ------------------------------------------------------------------- bounds
\* names add_employee is called with, and the longest registry built by calls
MaxEmployees == 3

\* size of the pre-registered staff of the crowded week (SpecCrowd)
MaxCrowd == 7

\* staff without preferences registered ahead of the others (SpecWide)
MaxFillers == 6

\* employees with preferences registered after that staff (SpecWide)
MaxWide == 2

\* ------------------------------------------------------------------ helpers
DaySet == {DAYS[i] : i \in 1..Len(DAYS)}

ShiftSet == {SHIFTS[i] : i \in 1..Len(SHIFTS)}

Names == 1..MaxEmployees

Crowd == 1..MaxCrowd

AllNames == Names \cup Crowd \cup (1..(MaxFillers + MaxWide))

Range(s) == {s[i] : i \in 1..Len(s)}

\* position of a day in DAYS (0 when it is not a day)
DayIndex(day) == IF day \in DaySet THEN CHOOSE i \in 1..Len(DAYS) : DAYS[i] = day ELSE 0

\* a preference plan: a dict day -> list of shifts
UniformPlan(days, shifts) == [d \in days |-> shifts]

QuirkPlan(days, hole, shifts) == [d \in days |-> IF d = hole THEN <<>> ELSE shifts]

EmptyPlan == UniformPlan({}, <<>>)

EveryDay == UniformPlan(DaySet, <<"Evening", "Morning">>)

WorkWeek == UniformPlan({"Monday", "Tuesday", "Wednesday", "Thursday", "Friday"}, <<"Morning", "Afternoon", "Evening">>)

MidweekHole == QuirkPlan({"Monday", "Wednesday", "Thursday", "Saturday"}, "Wednesday", <<"Afternoon", "Morning">>)

MondayHole == QuirkPlan({"Monday", "Tuesday", "Wednesday", "Thursday", "Friday"}, "Monday", <<"Morning">>)

TwoDays == [d \in {"Tuesday", "Thursday"} |->
               IF d = "Tuesday" THEN <<"Afternoon", "Evening">> ELSE <<"Evening">>]

Weekend == UniformPlan({"Saturday", "Sunday"}, <<"Morning">>)

SixDaysHole == QuirkPlan(DaySet \ {"Monday"}, "Sunday", <<"Evening", "Afternoon", "Morning">>)

HoleOnly == UniformPlan({"Wednesday"}, <<>>)

\* the plans add_employee is called with
SamplePlans == {EmptyPlan, EveryDay, WorkWeek, MidweekHole}

\* the plans of the pre-registered staff of the crowded week
CrowdPlans == {EmptyPlan, MondayHole}

\* the plans of the employees registered after the staff without preferences
WidePlans == {EveryDay, WorkWeek, MidweekHole, MondayHole, TwoDays, Weekend, SixDaysHole,
              HoleOnly}

VARIABLES
    employees,             \* self.employees: list of names, registration order
    preferences,           \* self.preferences: dict name -> plan
    schedule,              \* self.schedule: dict day -> dict shift -> list
    employee_days_worked,  \* self.employee_days_worked: defaultdict(int)
    pc,                    \* "setup", "pass1", "pass2", "pass3", "pass3_days", "done", "error"
    ei,                    \* index in employees of the loop variable employee
    di,                    \* index in DAYS of the loop variable day
    si,                    \* index in SHIFTS of the loop variable shift
    current_count,         \* local of _ensure_minimum_coverage
    scheduled_days,        \* local of _resolve_conflicts
    missing_days,          \* the days of missing_days the for loop has not visited yet
    last_add,              \* branch the latest add_employee call took
    run,                   \* 1 for the first scheduler, 2 for the second one
    first                  \* result of the first scheduler, once a second one runs

vars == <<employees, preferences, schedule, employee_days_worked, pc, ei, di, si,
          current_count, scheduled_days, missing_days, last_add, run, first>>

\* ----------------------------------------------------------------- __init__
EmptySchedule == [d \in DaySet |-> [s \in ShiftSet |-> <<>>]]

NoDaysWorked == [n \in AllNames |-> 0]

NoResult == [schedule |-> EmptySchedule, employee_days_worked |-> NoDaysWorked]

Fresh ==
    /\ schedule = EmptySchedule
    /\ employee_days_worked = NoDaysWorked
    /\ pc = "setup"
    /\ ei = 1 /\ di = 1 /\ si = 1
    /\ current_count = 0
    /\ scheduled_days = {}
    /\ missing_days = {}
    /\ last_add = "none"
    /\ run = 1
    /\ first = NoResult

Init ==
    /\ employees = <<>>
    /\ preferences = <<>>
    /\ Fresh

\* a scheduler on which add_employee was called for 1, 2, ..., n in this order
InitCrowd ==
    /\ \E n \in 1..MaxCrowd :
        /\ employees = [i \in 1..n |-> i]
        /\ preferences \in [1..n -> CrowdPlans]
    /\ Fresh

\* a scheduler on which add_employee was called for f employees with an empty
\* plan, then for k employees with a plan of their own
InitWide ==
    /\ \E f \in 0..MaxFillers : \E k \in 1..MaxWide :
        /\ employees = [i \in 1..(f + k) |-> i]
        /\ \E w \in [(f + 1)..(f + k) -> WidePlans] :
              preferences = [i \in 1..(f + k) |-> IF i <= f THEN EmptyPlan ELSE w[i]]
    /\ Fresh

\* ------------------------------------------------------------- add_employee
AddedEmployees(emps, name) ==
    IF name \notin Range(emps) THEN Append(emps, name) ELSE emps

\* slip: the plan of a duplicate call replaces the stored one
AddedPreferencesOverwriting(emps, prefs, name, plan) ==
    [n \in DOMAIN prefs \cup {name} |-> IF n = name THEN plan ELSE prefs[n]]

\* slip: the name is appended but its plan is not stored
AddedPreferencesForgetting(emps, prefs, name, plan) == prefs

AddedPreferences(emps, prefs, name, plan) ==
    IF name \notin Range(emps)
    THEN [n \in DOMAIN prefs \cup {name} |-> IF n = name THEN plan ELSE prefs[n]]
    ELSE prefs

AddEmployee(name, plan) ==
    /\ pc = "setup"
    /\ employees' = AddedEmployees(employees, name)
    /\ preferences' = AddedPreferences(employees, preferences, name, plan)
    /\ last_add' = IF name \notin Range(employees) THEN "added" ELSE "ignored"
    /\ UNCHANGED <<schedule, employee_days_worked, pc, ei, di, si, current_count,
                   scheduled_days, missing_days, run, first>>

\* ------------------------------------------------------------ shared pieces
InList(e, list) == \E i \in 1..Len(list) : list[i] = e

\* any(employee in self.schedule[day][shift] for shift in self.SHIFTS)
AlreadyScheduled(sched, e, day) ==
    \E i \in 1..Len(SHIFTS) : InList(e, sched[day][SHIFTS[i]])

\* slip: the slot is assigned a new list instead of being appended to
PlacedOverwriting(sched, day, shift, e) == [sched EXCEPT ![day][shift] = <<e>>]

\* self.schedule[day][shift].append(employee)
Placed(sched, day, shift, e) == [sched EXCEPT ![day][shift] = Append(@, e)]

\* slip: the increment is forgotten
CountedNever(edw, e) == edw

\* self.employee_days_worked[employee] += 1
Counted(edw, e) == [edw EXCEPT ![e] = @ + 1]

\* ------------------------------------------------- assign_shifts, Pass 1
\* slip: the loop goes on to the second choice when there is one
Pass1ShiftSecond(preferred_shifts) ==
    IF Len(preferred_shifts) >= 2 THEN preferred_shifts[2] ELSE preferred_shifts[1]

\* slip: the loop runs to the last preferred shift
Pass1ShiftLast(preferred_shifts) == preferred_shifts[Len(preferred_shifts)]

\* for preferred_shift in preferred_shifts: ...; break -- the shift of the
\* only iteration the loop makes
Pass1Shift(preferred_shifts) == preferred_shifts[1]

\* slip: the first pass does not test the weekly maximum
Pass1OutcomeNoCap(prefs, sched, edw, e, day) ==
    IF e \notin DOMAIN prefs THEN "error"
    ELSE IF day \in DOMAIN prefs[e]
         THEN IF ~AlreadyScheduled(sched, e, day)
              THEN IF Len(prefs[e][day]) > 0 THEN "place" ELSE "break"
              ELSE "next"
         ELSE "next"

\* slip: an empty sequence is skipped (continue) instead of ending the day loop
Pass1OutcomeSkipEmpty(prefs, sched, edw, e, day) ==
    IF edw[e] >= MAX_DAYS_PER_WEEK THEN "break"
    ELSE IF e \notin DOMAIN prefs THEN "error"
    ELSE IF day \in DOMAIN prefs[e]
         THEN IF ~AlreadyScheduled(sched, e, day)
              THEN IF Len(prefs[e][day]) > 0 THEN "place" ELSE "next"
              ELSE "next"
         ELSE "next"

\* what one (employee, day) iteration of the first pass does
Pass1Outcome(prefs, sched, edw, e, day) ==
    IF edw[e] >= MAX_DAYS_PER_WEEK THEN "break"
    ELSE IF e \notin DOMAIN prefs THEN "error"
    ELSE IF day \in DOMAIN prefs[e]
         THEN IF ~AlreadyScheduled(sched, e, day)
              THEN IF Len(prefs[e][day]) > 0 THEN "place" ELSE "break"
              ELSE "next"
         ELSE "next"

AssignShifts ==
    /\ pc = "setup"
    /\ pc' = "pass1"
    /\ ei' = 1 /\ di' = 1
    /\ last_add' = "none"
    /\ UNCHANGED <<employees, preferences, schedule, employee_days_worked, si,
                   current_count, scheduled_days, missing_days, run, first>>

Pass1Step ==
    /\ pc = "pass1"
    /\ ei <= Len(employees)
    /\ LET employee == employees[ei]
           day == DAYS[di]
           o == Pass1Outcome(preferences, schedule, employee_days_worked, employee, day)
           leave == o = "break" \/ (o \in {"place", "next"} /\ di = Len(DAYS))
       IN  /\ schedule' = IF o = "place"
                          THEN Placed(schedule, day, Pass1Shift(preferences[employee][day]), employee)
                          ELSE schedule
           /\ employee_days_worked' = IF o = "place"
                                      THEN Counted(employee_days_worked, employee)
                                      ELSE employee_days_worked
           /\ pc' = IF o = "error" THEN "error" ELSE "pass1"
           /\ ei' = IF leave THEN ei + 1 ELSE ei
           /\ di' = IF leave THEN 1 ELSE IF o = "error" THEN di ELSE di + 1
    /\ UNCHANGED <<employees, preferences, si, current_count, scheduled_days,
                   missing_days, last_add, run, first>>

\* the employee loop is exhausted: self._ensure_minimum_coverage() starts
Pass1Done ==
    /\ pc = "pass1"
    /\ ei > Len(employees)
    /\ pc' = "pass2"
    /\ ei' = 1 /\ di' = 1 /\ si' = 1
    /\ current_count' = Len(schedule[DAYS[1]][SHIFTS[1]])
    /\ UNCHANGED <<employees, preferences, schedule, employee_days_worked,
                   scheduled_days, missing_days, last_add, run, first>>

\* ------------------------------------------------ _ensure_minimum_coverage
\* slip: the scan does not test the other shifts of the day
AvailableOtherShifts(sched, edw, e, day, shift) ==
    /\ edw[e] < MAX_DAYS_PER_WEEK
    /\ ~InList(e, sched[day][shift])

\* slip: the scan tests the weekly maximum only
AvailableCapOnly(sched, edw, e, day, shift) == edw[e] < MAX_DAYS_PER_WEEK

\* the three tests of the employee scan
Available(sched, edw, e, day, shift) ==
    /\ edw[e] < MAX_DAYS_PER_WEEK
    /\ ~AlreadyScheduled(sched, e, day)
    /\ ~InList(e, sched[day][shift])

\* slip: the scan keeps the last available employee (no break)
BackfillLast(emps, sched, edw, day, shift) ==
    LET c == {i \in 1..Len(emps) : Available(sched, edw, emps[i], day, shift)}
    IN  IF c = {} THEN 0 ELSE CHOOSE i \in c : \A j \in c : i >= j

\* index of the employee the scan stops at, 0 when it finds nobody
Backfill(emps, sched, edw, day, shift) ==
    LET c == {i \in 1..Len(emps) : Available(sched, edw, emps[i], day, shift)}
    IN  IF c = {} THEN 0 ELSE CHOOSE i \in c : \A j \in c : i <= j

\* slip: the loop stops one employee short of the minimum
NeedsCoverShort(count) == count < MIN_EMPLOYEES_PER_SHIFT - 1

\* while current_count < self.MIN_EMPLOYEES_PER_SHIFT
NeedsCover(count) == count < MIN_EMPLOYEES_PER_SHIFT

\* slip: "if not assigned: break" is missing
Pass2LeavesNoBreak(count, k) == ~NeedsCover(count)

\* the while loop is left when its test fails, or by "if not assigned: break"
\* (k is the index of the employee the scan assigned, 0 for nobody)
Pass2Leaves(count, k) == ~NeedsCover(count) \/ k = 0

\* one test of the while condition and, when it holds, one scan of employees
Pass2Step ==
    /\ pc = "pass2"
    /\ LET day == DAYS[di]
           shift == SHIFTS[si]
           k == IF NeedsCover(current_count)
                THEN Backfill(employees, schedule, employee_days_worked, day, shift)
                ELSE 0
           last == di = Len(DAYS) /\ si = Len(SHIFTS)
           ndi == IF si < Len(SHIFTS) THEN di ELSE di + 1
           nsi == IF si < Len(SHIFTS) THEN si + 1 ELSE 1
       IN  IF k > 0
           THEN /\ schedule' = Placed(schedule, day, shift, employees[k])
                /\ employee_days_worked' = Counted(employee_days_worked, employees[k])
                /\ current_count' = current_count + 1
                /\ UNCHANGED <<pc, ei, di, si>>
           ELSE /\ UNCHANGED <<schedule, employee_days_worked>>
                /\ IF ~Pass2Leaves(current_count, k)
                   THEN UNCHANGED <<pc, ei, di, si, current_count>>
                   ELSE IF last
                   THEN /\ pc' = "pass3"
                        /\ ei' = 1 /\ di' = 1 /\ si' = 1
                        /\ current_count' = 0
                   ELSE /\ pc' = "pass2"
                        /\ ei' = ei /\ di' = ndi /\ si' = nsi
                        /\ current_count' = Len(schedule[DAYS[ndi]][SHIFTS[nsi]])
    /\ UNCHANGED <<employees, preferences, scheduled_days, missing_days, last_add,
                   run, first>>

\* ------------------------------------------------------ _resolve_conflicts
\* slip: only the first shift of each day is looked at
ScheduledDaysFirstShift(sched, e) == {d \in DaySet : InList(e, sched[d][SHIFTS[1]])}

ScheduledDays(sched, e) == {d \in DaySet : AlreadyScheduled(sched, e, d)}

\* self.preferences[employee].get(day, self.SHIFTS)
PriorityShifts(plan, day) == IF day \in DOMAIN plan THEN plan[day] ELSE SHIFTS

\* slip: the membership test is inverted ("in" for "not in")
Pass3ShiftInverted(sched, e, day, priority_shifts) ==
    LET c == {j \in 1..Len(priority_shifts) : InList(e, sched[day][priority_shifts[j]])}
    IN  IF c = {} THEN 0 ELSE CHOOSE j \in c : \A l \in c : j <= l

\* slip: the shift loop has no break and ends on the last shift that fits
Pass3ShiftLast(sched, e, day, priority_shifts) ==
    LET c == {j \in 1..Len(priority_shifts) : ~InList(e, sched[day][priority_shifts[j]])}
    IN  IF c = {} THEN 0 ELSE CHOOSE j \in c : \A l \in c : j >= l

\* index in priority_shifts of the shift the employee is put in, 0 for none
Pass3Shift(sched, e, day, priority_shifts) ==
    LET c == {j \in 1..Len(priority_shifts) : ~InList(e, sched[day][priority_shifts[j]])}
    IN  IF c = {} THEN 0 ELSE CHOOSE j \in c : \A l \in c : j <= l

\* head of the employee loop: the three sets are computed
Pass3Employee ==
    /\ pc = "pass3"
    /\ ei <= Len(employees)
    /\ LET employee == employees[ei]
       IN  IF employee \notin DOMAIN preferences
           THEN /\ pc' = "error"
                /\ UNCHANGED <<ei, scheduled_days, missing_days>>
           ELSE LET preferred_days == DOMAIN preferences[employee]
                    sd == ScheduledDays(schedule, employee)
                    md == preferred_days \ sd
                IN  IF md = {}
                    THEN /\ pc' = "pass3"
                         /\ ei' = ei + 1
                         /\ UNCHANGED <<scheduled_days, missing_days>>
                    ELSE /\ pc' = "pass3_days"
                         /\ ei' = ei
                         /\ scheduled_days' = sd
                         /\ missing_days' = md
    /\ UNCHANGED <<employees, preferences, schedule, employee_days_worked, di, si,
                   current_count, last_add, run, first>>

\* one iteration of "for day in missing_days"; a set is iterated in an order
\* the program does not fix, so any day not visited yet can come next
Pass3Day(day) ==
    /\ pc = "pass3_days"
    /\ day \in missing_days
    /\ LET employee == employees[ei]
           full == employee_days_worked[employee] >= MAX_DAYS_PER_WEEK
           already_scheduled == day \in scheduled_days
           priority_shifts == PriorityShifts(preferences[employee], day)
           k == IF full \/ already_scheduled
                THEN 0
                ELSE Pass3Shift(schedule, employee, day, priority_shifts)
           leave == full \/ missing_days = {day}
       IN  /\ schedule' = IF k > 0
                          THEN Placed(schedule, day, priority_shifts[k], employee)
                          ELSE schedule
           /\ employee_days_worked' = IF k > 0
                                      THEN Counted(employee_days_worked, employee)
                                      ELSE employee_days_worked
           /\ pc' = IF leave THEN "pass3" ELSE "pass3_days"
           /\ ei' = IF leave THEN ei + 1 ELSE ei
           /\ scheduled_days' = IF leave THEN {}
                                ELSE IF k > 0 THEN scheduled_days \cup {day}
                                ELSE scheduled_days
           /\ missing_days' = IF leave THEN {} ELSE missing_days \ {day}
    /\ UNCHANGED <<employees, preferences, di, si, current_count, last_add, run, first>>

\* the employee loop is exhausted: assign_shifts returns
Pass3Done ==
    /\ pc = "pass3"
    /\ ei > Len(employees)
    /\ pc' = "done"
    /\ UNCHANGED <<employees, preferences, schedule, employee_days_worked, ei, di, si,
                   current_count, scheduled_days, missing_days, last_add, run, first>>

\* a second, fresh scheduler is given the same add_employee calls and run
Rerun ==
    /\ pc = "done"
    /\ run = 1
    /\ run' = 2
    /\ first' = [schedule |-> schedule, employee_days_worked |-> employee_days_worked]
    /\ schedule' = EmptySchedule
    /\ employee_days_worked' = NoDaysWorked
    /\ pc' = "pass1"
    /\ ei' = 1 /\ di' = 1
    /\ UNCHANGED <<employees, preferences, si, current_count, scheduled_days,
                   missing_days, last_add>>

\* ----------------------------------------------------------- specifications
Register == \E name \in Names, plan \in SamplePlans : AddEmployee(name, plan)

Pass3Days == \E day \in DaySet : Pass3Day(day)

Assign == Pass1Step \/ Pass1Done \/ Pass2Step \/ Pass3Employee \/ Pass3Days \/ Pass3Done

Next == Register \/ AssignShifts \/ Assign

Spec == Init /\ [][Next]_vars

\* a call of assign_shifts runs to its end: nothing suspends it
FairSpec == Spec /\ WF_vars(Assign)

NextCrowd == AssignShifts \/ Assign \/ Rerun

SpecCrowd == InitCrowd /\ [][NextCrowd]_vars

NextWide == AssignShifts \/ Assign

SpecWide == InitWide /\ [][NextWide]_vars

TypeOK ==
    /\ Range(employees) \subseteq AllNames
    /\ DOMAIN preferences \subseteq AllNames
    /\ pc \in {"setup", "pass1", "pass2", "pass3", "pass3_days", "done", "error"}
    /\ di \in 1..Len(DAYS) /\ si \in 1..Len(SHIFTS)
    /\ run \in 1..2

\* =================================================================== claims
\* position of an employee in the registration order
Position(e) == CHOOSE i \in 1..Len(employees) : employees[i] = e

\* number of times e occurs in a list
Occurrences(list, e) == Cardinality({i \in 1..Len(list) : list[i] = e})

\* number of times e occurs in the three lists of a day
OccurrencesOnDay(sched, e, day) ==
    Occurrences(sched[day][SHIFTS[1]], e) + Occurrences(sched[day][SHIFTS[2]], e)
        + Occurrences(sched[day][SHIFTS[3]], e)

\* an employee whose plan has an entry with an empty sequence
HasEmptySequence(e) == \E d \in DOMAIN preferences[e] : preferences[e][d] = <<>>

\* C1 -- no double-booking: in every state of assign_shifts, every employee
\* occurs at most once in the three lists of a day, all lists taken together.
NoDoubleBooking ==
    \A e \in AllNames : \A d \in DaySet : OccurrencesOnDay(schedule, e, d) <= 1

\* e was put on day d by the third pass: e is third in the first shift of the
\* sequence of d, behind two employees without preferences (whom only the
\* second pass places, and who fill the slot to its minimum)
PutByPass3(e, d) ==
    /\ d \in DOMAIN preferences[e]
    /\ Len(preferences[e][d]) > 0
    /\ LET list == schedule[d][preferences[e][d][1]]
       IN  /\ Len(list) = MIN_EMPLOYEES_PER_SHIFT + 1
           /\ list[MIN_EMPLOYEES_PER_SHIFT + 1] = e
           /\ preferences[list[1]] = EmptyPlan
           /\ preferences[list[2]] = EmptyPlan

\* C1 witness: a finished run with a plan of more than 5 days, in which an
\* employee whose plan has an empty sequence was placed by the first pass
\* (first in a slot), by the second pass (on a day outside the plan) and by
\* the third pass.
NoDoubleBookingWitness ==
    /\ pc = "done"
    /\ \E e \in Range(employees) : Cardinality(DOMAIN preferences[e]) > MAX_DAYS_PER_WEEK
    /\ \E e \in Range(employees) :
          /\ HasEmptySequence(e)
          /\ \E d \in DaySet : PutByPass3(e, d)
          /\ \E d \in DOMAIN preferences[e] :
                /\ Len(preferences[e][d]) > 0
                /\ Len(schedule[d][preferences[e][d][1]]) > 0
                /\ schedule[d][preferences[e][d][1]][1] = e
          /\ \E d \in DaySet \ DOMAIN preferences[e] : OccurrencesOnDay(schedule, e, d) = 1

\* C2 -- cap respected: employee_days_worked[e] <= MAX_DAYS_PER_WEEK in every
\* reachable state, for every employee.
CapRespected == \A e \in AllNames : employee_days_worked[e] <= MAX_DAYS_PER_WEEK

\* C2 witness: an employee whose plan names 7 days is at the cap while the
\* first pass still has days of that plan to look at.
CapRespectedWitness ==
    /\ pc = "pass1"
    /\ ei <= Len(employees)
    /\ Cardinality(DOMAIN preferences[employees[ei]]) = Len(DAYS)
    /\ employee_days_worked[employees[ei]] = MAX_DAYS_PER_WEEK
    /\ Len(employees) = MaxEmployees

\* C3 -- counter consistency: employee_days_worked[e] is the number of
\* distinct days on which e is in some shift, after every placement.
CounterConsistency ==
    \A e \in AllNames : employee_days_worked[e] = Cardinality(ScheduledDays(schedule, e))

\* C3 witness: the third pass has just placed the employee of its loop on a
\* day it has visited, after the first pass placed the employee on a day of
\* the plan and the second pass on a day outside the plan.
CounterConsistencyWitness ==
    /\ pc = "pass3_days"
    /\ \E d \in scheduled_days \ missing_days : PutByPass3(employees[ei], d)
    /\ \E d \in DaySet \ DOMAIN preferences[employees[ei]] :
          AlreadyScheduled(schedule, employees[ei], d)
    /\ employee_days_worked[employees[ei]] >= 3

\* C4 -- append-only schedule: a step of assign_shifts leaves every list as it
\* was or appends one employee to it, and no counter decreases.
AppendOnly ==
    [][ /\ \A d \in DaySet : \A s \in ShiftSet :
             \/ schedule'[d][s] = schedule[d][s]
             \/ \E e \in AllNames : schedule'[d][s] = Append(schedule[d][s], e)
        /\ \A e \in AllNames : employee_days_worked'[e] >= employee_days_worked[e] ]_vars

\* C4 witness: a finished run in which the third pass appended an employee
\* behind two earlier-registered employees placed by the second pass, and the
\* first pass placement of that employee still heads its slot, followed by an
\* employee the second pass appended later.
AppendOnlyWitness ==
    /\ pc = "done"
    /\ \E e \in Range(employees) :
          /\ \E d \in DaySet :
                /\ PutByPass3(e, d)
                /\ Position(schedule[d][preferences[e][d][1]][1]) < Position(e)
          /\ \E d \in DOMAIN preferences[e] :
                /\ Len(preferences[e][d]) > 0
                /\ Len(schedule[d][preferences[e][d][1]]) = MIN_EMPLOYEES_PER_SHIFT
                /\ schedule[d][preferences[e][d][1]][1] = e
                /\ preferences[schedule[d][preferences[e][d][1]][2]] = EmptyPlan

\* C5 -- determinism: a second fresh scheduler with the same registrations
\* ends with the schedule and the counters of the first one.
Determinism ==
    (run = 2 /\ pc = "done") =>
        /\ schedule = first.schedule
        /\ employee_days_worked = first.employee_days_worked

\* C6 -- termination: a started assign_shifts reaches its end, and an
\* iteration of the while loop of the second pass either places one employee,
\* raising the count of the slot (which never passes the minimum), or places
\* nobody and leaves the slot.
Termination ==
    /\ (pc = "pass1") ~> (pc = "done")
    /\ [][ pc = "pass2" =>
              \/ /\ pc' = "pass2" /\ di' = di /\ si' = si
                 /\ Len(schedule'[DAYS[di]][SHIFTS[si]]) = Len(schedule[DAYS[di]][SHIFTS[si]]) + 1
                 /\ current_count' = current_count + 1
                 /\ current_count' <= MIN_EMPLOYEES_PER_SHIFT
              \/ /\ schedule' = schedule
                 /\ pc' # "pass2" \/ di' # di \/ si' # si ]_vars

\* C6 witness: a finished run of a full registry in which the while loop was
\* left both ways: a slot reached the minimum and a slot stayed below it.
TerminationWitness ==
    /\ pc = "done"
    /\ Len(employees) = MaxEmployees
    /\ \E d \in DaySet : \E s \in ShiftSet : Len(schedule[d][s]) < MIN_EMPLOYEES_PER_SHIFT
    /\ \E d \in DaySet : \E s \in ShiftSet : \E e \in Range(employees) :
          /\ preferences[e] = EmptyPlan
          /\ Len(schedule[d][s]) = MIN_EMPLOYEES_PER_SHIFT
          /\ InList(e, schedule[d][s])

NoDuplicates(list) == \A i \in 1..Len(list) : \A j \in 1..Len(list) : list[i] = list[j] => i = j

\* C7 -- add_employee: a call either changes nothing (the name is registered:
\* the first plan stays) or appends a new name and stores its plan, leaving
\* the plans of the others alone; employees never holds a name twice.
AddEmployeeKeepsFirst ==
    [][ pc = "setup" =>
          /\ NoDuplicates(employees')
          /\ \/ employees' = employees /\ preferences' = preferences
             \/ \E n \in AllNames \ Range(employees) :
                   /\ employees' = Append(employees, n)
                   /\ DOMAIN preferences' = DOMAIN preferences \cup {n}
                   /\ \A m \in DOMAIN preferences : preferences'[m] = preferences[m]
          /\ last_add' = "ignored" => employees' = employees /\ preferences' = preferences
          /\ last_add' = "added" => employees' # employees ]_vars

\* C7 witness: a call with a registered name was made on a registry of
\* several employees whose plans differ.
AddEmployeeKeepsFirstWitness ==
    /\ pc = "setup"
    /\ last_add = "ignored"
    /\ Len(employees) >= 2
    /\ preferences[employees[1]] # preferences[employees[2]]

\* the first k days of a plan, in Monday..Sunday order
FirstDays(plan, k) ==
    {d \in DOMAIN plan : Cardinality({d2 \in DOMAIN plan : DayIndex(d2) < DayIndex(d)}) < k}

Smaller(a, b) == IF a < b THEN a ELSE b

EndOfPass1 == pc = "pass1" /\ ei > Len(employees)

\* C8 -- result of the first pass: an employee whose sequences are all
\* non-empty is, at the end of the pass, in the first shift of the sequence
\* of the first min(5, number of preferred days) preferred days and nowhere
\* else, with that number as counter; every list is in registration order.
Pass1Result ==
    EndOfPass1 =>
        /\ \A e \in Range(employees) : ~HasEmptySequence(e) =>
              LET plan == preferences[e]
                  k == Smaller(MAX_DAYS_PER_WEEK, Cardinality(DOMAIN plan))
              IN  /\ employee_days_worked[e] = k
                  /\ \A d \in DaySet : \A s \in ShiftSet :
                        InList(e, schedule[d][s]) <=> (d \in FirstDays(plan, k) /\ s = plan[d][1])
        /\ \A d \in DaySet : \A s \in ShiftSet :
              \A i \in 1..Len(schedule[d][s]) : \A j \in 1..Len(schedule[d][s]) :
                  i < j => Position(schedule[d][s][i]) < Position(schedule[d][s][j])

\* C8 witness: the first pass ends with the first two registered employees
\* sharing Monday morning and an employee of a 7-day plan at 5 days.
Pass1ResultWitness ==
    /\ EndOfPass1
    /\ Len(employees) >= 2
    /\ Len(schedule["Monday"]["Morning"]) >= 2
    /\ schedule["Monday"]["Morning"][1] = employees[1]
    /\ schedule["Monday"]["Morning"][2] = employees[2]
    /\ employee_days_worked[employees[1]] >= 1
    /\ employee_days_worked[employees[2]] >= 1
    /\ \E e \in Range(employees) :
          /\ Cardinality(DOMAIN preferences[e]) > MAX_DAYS_PER_WEEK
          /\ employee_days_worked[e] = MAX_DAYS_PER_WEEK

\* C9 -- best-effort coverage: with fewer than 2 employees no error is raised,
\* every slot stays below 2 and holds registered employees only, with no
\* employee every slot stays empty, and the run reaches its end.
CoverageBestEffort ==
    /\ [](Len(employees) < MIN_EMPLOYEES_PER_SHIFT =>
            /\ pc # "error"
            /\ \A d \in DaySet : \A s \in ShiftSet :
                  /\ Len(schedule[d][s]) < MIN_EMPLOYEES_PER_SHIFT
                  /\ Range(schedule[d][s]) \subseteq Range(employees)
                  /\ Len(employees) = 0 => schedule[d][s] = <<>>)
    /\ (pc = "pass1" /\ Len(employees) < MIN_EMPLOYEES_PER_SHIFT) ~> (pc = "done")

\* C9 witness: the run of a single employee has ended, the employee was
\* backfilled up to the cap and slots are left understaffed.
CoverageBestEffortWitness ==
    /\ pc = "done"
    /\ Len(employees) = 1
    /\ employee_days_worked[employees[1]] = MAX_DAYS_PER_WEEK
    /\ schedule["Monday"]["Morning"] = <<employees[1]>>
    /\ schedule["Sunday"]["Evening"] = <<>>

\* an employee the scan of the second pass may take for a day
Free(e, day) ==
    /\ employee_days_worked[e] < MAX_DAYS_PER_WEEK
    /\ OccurrencesOnDay(schedule, e, day) = 0

\* C10 -- selection rule of the second pass: slots are visited in the order
\* Monday..Sunday, Morning..Evening; a placement goes to the slot being visited,
\* which holds fewer than 2 employees, and takes the earliest registered
\* employee who is below 5 days and in no shift of the day.
Pass2Selection ==
    [][ /\ (pc # "pass2" /\ pc' = "pass2") => (di' = 1 /\ si' = 1)
        /\ (pc = "pass2" /\ pc' # "pass2") => (di = Len(DAYS) /\ si = Len(SHIFTS))
        /\ (pc = "pass2" /\ pc' = "pass2") =>
              \/ di' = di /\ si' = si
              \/ di' = di /\ si' = si + 1 /\ schedule' = schedule
              \/ di' = di + 1 /\ si = Len(SHIFTS) /\ si' = 1 /\ schedule' = schedule
        /\ (pc = "pass2" /\ schedule' # schedule) =>
              /\ Len(schedule[DAYS[di]][SHIFTS[si]]) < MIN_EMPLOYEES_PER_SHIFT
              /\ \E i \in 1..Len(employees) :
                    /\ schedule' = [schedule EXCEPT ![DAYS[di]][SHIFTS[si]] = Append(@, employees[i])]
                    /\ Free(employees[i], DAYS[di])
                    /\ \A j \in 1..(i - 1) : ~Free(employees[j], DAYS[di]) ]_vars

\* C10 witness: the second pass has put the last registered employee, alone, in
\* a slot of a day the employee has no preference for, the first registered
\* employee being taken that day.
Pass2SelectionWitness ==
    /\ pc = "pass2"
    /\ Len(employees) = MaxEmployees
    /\ schedule[DAYS[di]][SHIFTS[si]] = <<employees[Len(employees)]>>
    /\ DAYS[di] \notin DOMAIN preferences[employees[Len(employees)]]
    /\ OccurrencesOnDay(schedule, employees[1], DAYS[di]) = 1

\* the second pass is over
AfterPass2 == pc \in {"pass3", "pass3_days", "done"}

\* C11 -- post-condition of the second pass: once the pass is over, and at
\* the end of the run, every slot holds at least 2 employees or every
\* registered employee is at 5 days or in some shift of the day.
Pass2PostCondition ==
    AfterPass2 =>
        \A d \in DaySet : \A s \in ShiftSet :
            \/ Len(schedule[d][s]) >= MIN_EMPLOYEES_PER_SHIFT
            \/ \A e \in Range(employees) : ~Free(e, d)

\* C11 witness: a finished run with a slot at the minimum, and an empty slot
\* on a day on which an employee below 5 days works another shift.
Pass2PostConditionWitness ==
    /\ pc = "done"
    /\ Len(employees) > MaxFillers
    /\ \E d \in DaySet : \E s \in ShiftSet : Len(schedule[d][s]) = MIN_EMPLOYEES_PER_SHIFT
    /\ \E d \in DaySet : \E s \in ShiftSet : \E e \in Range(employees) :
          /\ schedule[d][s] = <<>>
          /\ employee_days_worked[e] < MAX_DAYS_PER_WEEK
          /\ AlreadyScheduled(schedule, e, d)

\* the days of its plan an employee is in no shift of
Wanted(e) == {d \in DOMAIN preferences[e] : ~AlreadyScheduled(schedule, e, d)}

\* the shifts the third pass tries for a day, in rank order
Tried(e, d) == IF d \in DOMAIN preferences[e] THEN preferences[e][d] ELSE SHIFTS

\* C12 -- rule of the third pass: employees are taken in registration order;
\* the days visited for an employee are the days of the plan the employee is
\* in no shift of; on a visited day an employee below 5 days is appended to
\* the first shift of the sequence tried that the employee is not part of
\* (whatever the slot holds), and nothing else changes the schedule.
Pass3Rule ==
    [][ /\ (pc = "pass3" /\ ei <= Len(employees)) =>
              /\ schedule' = schedule
              /\ employee_days_worked' = employee_days_worked
              /\ IF Wanted(employees[ei]) = {}
                 THEN pc' = "pass3" /\ ei' = ei + 1
                 ELSE pc' = "pass3_days" /\ ei' = ei /\ missing_days' = Wanted(employees[ei])
        /\ pc = "pass3_days" =>
              \E d \in missing_days :
                 LET e == employees[ei]
                     seq == Tried(e, d)
                     fits == {j \in 1..Len(seq) : ~InList(e, schedule[d][seq[j]])}
                 IN  /\ d \in Wanted(e)
                     /\ IF employee_days_worked[e] >= MAX_DAYS_PER_WEEK
                        THEN /\ schedule' = schedule
                             /\ employee_days_worked' = employee_days_worked
                             /\ pc' = "pass3"
                        ELSE IF fits = {}
                        THEN /\ schedule' = schedule
                             /\ employee_days_worked' = employee_days_worked
                        ELSE \E j \in fits :
                                /\ \A l \in fits : j <= l
                                /\ schedule' = [schedule EXCEPT ![d][seq[j]] = Append(@, e)]
                                /\ employee_days_worked' =
                                       [employee_days_worked EXCEPT ![e] = @ + 1]
                     /\ pc' = "pass3_days" => (ei' = ei /\ missing_days' = missing_days \ {d})
                     /\ pc' # "pass3_days" => (pc' = "pass3" /\ ei' = ei + 1) ]_vars

\* C12 witness: the third pass has appended the employee of its loop, as third
\* employee, to the first shift of a ranked sequence, behind two employees
\* without preferences.
Pass3RuleWitness ==
    /\ pc = "pass3_days"
    /\ \E d \in DOMAIN preferences[employees[ei]] :
          LET seq == preferences[employees[ei]][d]
          IN  /\ Len(seq) >= 2
              /\ Len(schedule[d][seq[1]]) = MIN_EMPLOYEES_PER_SHIFT + 1
              /\ schedule[d][seq[1]][MIN_EMPLOYEES_PER_SHIFT + 1] = employees[ei]
              /\ preferences[schedule[d][seq[1]][1]] = EmptyPlan
              /\ preferences[schedule[d][seq[1]][2]] = EmptyPlan

\* the first day of a plan, in Monday..Sunday order, whose sequence is empty
FirstHole(plan) ==
    CHOOSE h \in DOMAIN plan :
        /\ plan[h] = <<>>
        /\ \A h2 \in DOMAIN plan : plan[h2] = <<>> => DayIndex(h) <= DayIndex(h2)

\* the days of a plan that come before a day
DaysBefore(plan, day) == {d \in DOMAIN plan : DayIndex(d) < DayIndex(day)}

\* C13 -- empty-sequence quirk of the first pass: an employee who reaches a
\* day with an empty sequence below 5 days ends the pass placed on the
\* preferred days before it (first shift each) and on no other day; the
\* employees whose sequences are all non-empty get their min(5, n) days.
Pass1EmptySequence ==
    EndOfPass1 =>
        \A e \in Range(employees) :
            LET plan == preferences[e]
            IN  IF HasEmptySequence(e)
                THEN LET before == DaysBefore(plan, FirstHole(plan))
                     IN  Cardinality(before) < MAX_DAYS_PER_WEEK =>
                            /\ employee_days_worked[e] = Cardinality(before)
                            /\ \A d \in DaySet : \A s \in ShiftSet :
                                  InList(e, schedule[d][s]) <=> (d \in before /\ s = plan[d][1])
                ELSE employee_days_worked[e] =
                        Smaller(MAX_DAYS_PER_WEEK, Cardinality(DOMAIN plan))

\* C13 witness: the first pass ends with an employee placed on the Monday
\* before the empty Wednesday and on no later day of the plan, and a later
\* registered employee placed on its days.
Pass1EmptySequenceWitness ==
    /\ EndOfPass1
    /\ \E e \in Range(employees) : \E e2 \in Range(employees) :
          /\ preferences[e] = MidweekHole
          /\ InList(e, schedule["Monday"]["Afternoon"])
          /\ ~AlreadyScheduled(schedule, e, "Thursday")
          /\ ~AlreadyScheduled(schedule, e, "Saturday")
          /\ employee_days_worked[e] = 1
          /\ Position(e2) > Position(e)
          /\ employee_days_worked[e2] = MAX_DAYS_PER_WEEK

\* C14 -- no lookup of an unregistered employee: in every state the names of
\* employees are the keys of preferences, and no pass ends in an error.
RegisteredOnly ==
    /\ Range(employees) = DOMAIN preferences
    /\ pc # "error"

\* C14 witness: the run of a full registry holding an empty plan and a plan
\* with an empty sequence has ended.
RegisteredOnlyWitness ==
    /\ pc = "done"
    /\ Len(employees) = MaxEmployees
    /\ \E e \in Range(employees) : preferences[e] = EmptyPlan
    /\ \E e \in Range(employees) : HasEmptySequence(e)

\* every registered plan names at most 5 days, each with a non-empty sequence
ValidInput ==
    \A e \in Range(employees) :
        /\ Cardinality(DOMAIN preferences[e]) <= MAX_DAYS_PER_WEEK
        /\ ~HasEmptySequence(e)

\* the first pass is over
AfterPass1 == EndOfPass1 \/ pc \in {"pass2", "pass3", "pass3_days", "done"}

\* C15 -- validated input: once the first pass is over every employee is in
\* the first-choice shift of every preferred day, and the third pass changes
\* neither the schedule nor a counter (it finds no missing day).
ValidInputSkipsPass3 ==
    /\ []((ValidInput /\ AfterPass1) =>
            \A e \in Range(employees) : \A d \in DOMAIN preferences[e] :
                InList(e, schedule[d][preferences[e][d][1]]))
    /\ [][ (ValidInput /\ pc \in {"pass3", "pass3_days"}) =>
              /\ schedule' = schedule
              /\ employee_days_worked' = employee_days_worked
              /\ pc' # "pass3_days" ]_vars

\* C15 witness: a run on validated input has ended with an employee of a
\* two-day plan backfilled on other days and still below 5 days.
ValidInputSkipsPass3Witness ==
    /\ pc = "done"
    /\ ValidInput
    /\ \E e \in Range(employees) :
          /\ preferences[e] = TwoDays
          /\ employee_days_worked[e] > Cardinality(DOMAIN TwoDays)
          /\ employee_days_worked[e] < MAX_DAYS_PER_WEEK

\* the first element of the sequence of a day of a plan, if there is one
IsFirstChoice(e, d, s) ==
    /\ d \in DOMAIN preferences[e]
    /\ Len(preferences[e][d]) > 0
    /\ s = preferences[e][d][1]

\* C16 -- second and third choices are never used: a step that puts an
\* employee in a shift is a step of the second pass, or a step of the first
\* or third pass that puts the employee of its loop in the first element of
\* the sequence of that day.
FirstChoiceOnly ==
    [][ (schedule' # schedule /\ pc # "pass2") =>
           \A e \in Range(employees) : \A d \in DaySet : \A s \in ShiftSet :
               (InList(e, schedule'[d][s]) /\ ~InList(e, schedule[d][s])) =>
                   /\ pc \in {"pass1", "pass3_days"}
                   /\ e = employees[ei]
                   /\ IsFirstChoice(e, d, s) ]_vars

\* C16 witness: at the end of a run an employee sits in the second choice of
\* a preferred day, and a third pass placement (third in its slot, behind two
\* employees without preferences) sits in a first choice.
FirstChoiceOnlyWitness ==
    /\ pc = "done"
    /\ \E e \in Range(employees) : \E d \in DOMAIN preferences[e] :
          /\ Len(preferences[e][d]) >= 2
          /\ InList(e, schedule[d][preferences[e][d][2]])
    /\ \E e \in Range(employees) : \E d \in DOMAIN preferences[e] :
          /\ Len(preferences[e][d]) >= 2
          /\ Len(schedule[d][preferences[e][d][1]]) = MIN_EMPLOYEES_PER_SHIFT + 1
          /\ schedule[d][preferences[e][d][1]][MIN_EMPLOYEES_PER_SHIFT + 1] = e
          /\ preferences[schedule[d][preferences[e][d][1]][1]] = EmptyPlan
          /\ preferences[schedule[d][preferences[e][d][1]][2]] = EmptyPlan

\* C17 -- at the end of the run an employee is in some shift of every day of
\* the plan whose sequence is not empty, or is at 5 days.
WantedDaysServed ==
    pc = "done" =>
        \A e \in Range(employees) : \A d \in DOMAIN preferences[e] :
            Len(preferences[e][d]) > 0 =>
                \/ AlreadyScheduled(schedule, e, d)
                \/ employee_days_worked[e] = MAX_DAYS_PER_WEEK

\* C17 witness: at the end of a run an employee below 5 days is in no shift
\* of a day whose sequence is empty, and was put by the third pass (third in
\* the slot, behind two employees without preferences) on another day.
WantedDaysServedWitness ==
    /\ pc = "done"
    /\ \E e \in Range(employees) :
          /\ employee_days_worked[e] < MAX_DAYS_PER_WEEK
          /\ \E d \in DOMAIN preferences[e] :
                /\ preferences[e][d] = <<>>
                /\ ~AlreadyScheduled(schedule, e, d)
          /\ \E d \in DOMAIN preferences[e] :
                /\ Len(preferences[e][d]) > 0
                /\ schedule[d][preferences[e][d][1]] # <<>>
                /\ schedule[d][preferences[e][d][1]][Len(schedule[d][preferences[e][d][1]])] = e
                /\ preferences[schedule[d][preferences[e][d][1]][1]] = EmptyPlan

====
